---- MODULE Spec2Model ----
(***************************************************************************)
(* A model of the jobly backend: the partial-update fragment builder       *)
(* (helpers/sql.js), the Company, Job and User models over a relational    *)
(* store, and the interleaving of their queries.                           *)
(*                                                                         *)
(* Strings are TLA+ strings; where the code looks inside a string (ILIKE,  *)
(* ORDER BY) the characters come from the table Chars.  A string the code  *)
(* assembles (setCols) is the sequence of the pieces it concatenates.      *)
(***************************************************************************)
EXTENDS Integers, Sequences, FiniteSets, TLC

VARIABLES companies, jobs, users, applications, jobSeq, last, nops, procs

vars == <<companies, jobs, users, applications, jobSeq, last, nops, procs>>
db_vars == <<companies, jobs, users, applications, jobSeq>>

-----------------------------------------------------------------------------
(* Bounds *)

\* longest data mapping handed to sqlForPartialUpdate on its own
MaxKeys == 2

-----------------------------------------------------------------------------
(* JavaScript values *)

\* the result of a property read: undefined, or a string
Undefined == [defined |-> FALSE, v |-> ""]
Str(s) == [defined |-> TRUE, v |-> s]

\* ToBoolean of a property read: undefined and "" are falsy
Truthy(x) == x.defined /\ x.v # ""

\* Properties every object literal inherits from Object.prototype, as the
\* template literal `${...}` renders them.
ObjectPrototype ==
  [constructor |-> "function Object() { [native code] }",
   toString |-> "function toString() { [native code] }"]

\* obj[key]: an own property, else an inherited one, else undefined
JsGet(obj, key) ==
  IF key \in DOMAIN obj THEN Str(obj[key])
  ELSE IF key \in DOMAIN ObjectPrototype THEN Str(ObjectPrototype[key])
  ELSE Undefined

\* a || b on a property read and a string
OrElse(x, s) == IF Truthy(x) THEN x.v ELSE s

\* Array.prototype.join
RECURSIVE Join(_, _)
Join(parts, sep) ==
  IF Len(parts) = 0 THEN <<>>
  ELSE IF Len(parts) = 1 THEN parts[1]
  ELSE parts[1] \o sep \o Join(Tail(parts), sep)

-----------------------------------------------------------------------------
(* Errors and results *)

Err(name, message) == [ok |-> FALSE, error |-> [name |-> name, message |-> message]]
BadRequestError(message) == Err("BadRequestError", message)
NotFoundError(message) == Err("NotFoundError", message)
UnauthorizedError(message) == Err("UnauthorizedError", message)
\* an error of the database client, propagated unchanged
DbError(message) == Err("DatabaseError", message)

-----------------------------------------------------------------------------
(* helpers/sql.js *)

\* A data mapping is its keys in iteration order (Object.keys) and the value
\* of each key.
DataKeys(data) == data.keys
DataValues(data) == [k \in 1..Len(data.keys) |-> data.vals[data.keys[k]]]

\* `"${jsToSql[colName] || colName}"=$${idx + 1}` with idx = k - 1
SetColMutZeroBased(jsToSql, colName, k) ==
  <<"\"", OrElse(JsGet(jsToSql, colName), colName), "\"", "=$", ToString(k - 1)>>
SetCol(jsToSql, colName, k) ==
  <<"\"", OrElse(JsGet(jsToSql, colName), colName), "\"", "=$", ToString(k)>>

sqlForPartialUpdateMutNoCheck(dataToUpdate, jsToSql) ==
  LET keys == DataKeys(dataToUpdate)
      cols == [k \in 1..Len(keys) |-> SetCol(jsToSql, keys[k], k)]
  IN  [ok |-> TRUE,
       setCols |-> Join(cols, <<", ">>),
       values |-> DataValues(dataToUpdate)]
sqlForPartialUpdate(dataToUpdate, jsToSql) ==
  LET keys == DataKeys(dataToUpdate)
      cols == [k \in 1..Len(keys) |-> SetCol(jsToSql, keys[k], k)]
  IN  IF Len(keys) = 0 THEN BadRequestError("No data")
      ELSE [ok |-> TRUE,
            setCols |-> Join(cols, <<", ">>),
            values |-> DataValues(dataToUpdate)]

-----------------------------------------------------------------------------
(* Text: the characters of the strings that are searched and sorted *)

Chars(s) ==
  CASE s = "" -> <<>>
    [] s = "A" -> <<"A">>
    [] s = "b" -> <<"b">>
    [] s = "Ab" -> <<"A", "b">>
    [] s = "ba" -> <<"b", "a">>
    [] s = "c1" -> <<"c", "1">>
    [] s = "c2" -> <<"c", "2">>
    [] s = "u1" -> <<"u", "1">>
    [] s = "u2" -> <<"u", "2">>

\* code points, the order ORDER BY compares characters in
CharRank(c) ==
  CASE c = "1" -> 49 [] c = "2" -> 50
    [] c = "A" -> 65 [] c = "B" -> 66
    [] c = "a" -> 97 [] c = "b" -> 98 [] c = "c" -> 99 [] c = "u" -> 117

Lower(cs) ==
  [i \in 1..Len(cs) |-> CASE cs[i] = "A" -> "a" [] cs[i] = "B" -> "b" [] OTHER -> cs[i]]

\* text ILIKE '%' || pattern || '%' (no wildcard in the patterns drawn)
ILikeContains(text, pattern) ==
  LET t == Lower(Chars(text))
      q == Lower(Chars(pattern))
  IN  \E i \in 0..(Len(t) - Len(q)) : SubSeq(t, i + 1, i + Len(q)) = q

\* s <= t in the order of ORDER BY
RECURSIVE SeqLeq(_, _)
SeqLeq(a, b) ==
  IF Len(a) = 0 THEN TRUE
  ELSE IF Len(b) = 0 THEN FALSE
  ELSE IF CharRank(Head(a)) # CharRank(Head(b)) THEN CharRank(Head(a)) < CharRank(Head(b))
  ELSE SeqLeq(Tail(a), Tail(b))
StrLeq(s, t) == SeqLeq(Chars(s), Chars(t))

\* the number a placeholder names
PhNum(s) == CHOOSE n \in 0..9 : ToString(n) = s

\* all orders of a finite set of rows
RECURSIVE Perms(_)
Perms(S) ==
  IF S = {} THEN {<<>>}
  ELSE UNION {{<<x>> \o p : p \in Perms(S \ {x})} : x \in S}

\* a <= b in the order of ORDER BY <by>
OrderByLeq(by, a, b) ==
  CASE by = "name" -> StrLeq(a.name, b.name)
    [] by = "username" -> StrLeq(a.username, b.username)
    [] by = "c.name, j.title" ->
         IF a.companyName # b.companyName THEN StrLeq(a.companyName, b.companyName)
         ELSE StrLeq(a.title, b.title)

\* the rows of a result set in every order ORDER BY <by> allows
Ordered(S, by) ==
  {p \in Perms(S) : \A i, j \in 1..Len(p) : i < j => OrderByLeq(by, p[i], p[j])}

-----------------------------------------------------------------------------
(* The store: four tables and the jobs.id sequence *)

Db == [companies |-> companies, jobs |-> jobs, users |-> users,
       applications |-> applications, jobSeq |-> jobSeq]

CompanyColumns == {"handle", "name", "description", "num_employees", "logo_url"}
JobColumns == {"id", "title", "salary", "equity", "company_handle"}
UserColumns == {"username", "password", "first_name", "last_name", "email", "is_admin"}

\* no request is in flight
NoProcs == <<>>

Outcome(D, r) == [db |-> D, result |-> r]
Ok(v) == [ok |-> TRUE, value |-> v]
\* a handler that returns nothing
OkVoid == Ok("undefined")

\* SELECT ... WHERE col = $1
SelectWhere(rows, col, v) == {r \in rows : r[col] = v}
\* result.rows[0] of a non-empty result
FirstRow(rows) == CHOOSE r \in rows : TRUE

\* a column list with aliases: alias :> column
Project(row, aliases) == [a \in DOMAIN aliases |-> row[aliases[a]]]

\* delete obj[prop]
DeleteProp(obj, prop) == [k \in (DOMAIN obj) \ {prop} |-> obj[k]]

\* PRIMARY KEY: no stored row holds the key.  With the constraint left out
\* every key is free.
PrimaryKeyFreeMutNoConstraint(rows, col, v) == TRUE
PrimaryKeyFree(rows, col, v) == \A r \in rows : r[col] # v

\* FOREIGN KEY: a stored row holds the referenced key
ForeignKeyHoldsMutNoConstraint(rows, col, v) == TRUE
ForeignKeyHolds(rows, col, v) == \E r \in rows : r[col] = v

\* What deleting a row with dependent rows does is left open: the delete is
\* refused, or the dependent rows go with it.
OnDeleteModes == {"restrict", "cascade"}

\* SET <setCols> as (column, placeholder) pairs
Assignments(setCols) ==
  [i \in 1..((Len(setCols) + 1) \div 6) |->
     [col |-> setCols[6 * (i - 1) + 2], ph |-> setCols[6 * (i - 1) + 5]]]

\* UPDATE <table> SET <setCols> WHERE <keyCol> = <idVarIdx> RETURNING ...
\* An unknown column fails the statement, and so does a new key that another
\* row holds.
UpdateWhereMutNoWhere(rows, columns, keyCol, setCols, idVarIdx, params) ==
  LET as == Assignments(setCols)
      set(r) == [c \in DOMAIN r |->
                   IF \E i \in 1..Len(as) : as[i].col = c
                   THEN params[PhNum(as[CHOOSE i \in 1..Len(as) : as[i].col = c].ph)]
                   ELSE r[c]]
  IN  IF \E i \in 1..Len(as) : as[i].col \notin columns
      THEN [failed |-> "column does not exist", rows |-> rows, returning |-> {}]
      ELSE [failed |-> "", rows |-> {set(r) : r \in rows},
            returning |-> {set(r) : r \in rows}]
UpdateWhere(rows, columns, keyCol, setCols, idVarIdx, params) ==
  LET as == Assignments(setCols)
      hit == {r \in rows : r[keyCol] = params[PhNum(idVarIdx)]}
      set(r) == [c \in DOMAIN r |->
                   IF \E i \in 1..Len(as) : as[i].col = c
                   THEN params[PhNum(as[CHOOSE i \in 1..Len(as) : as[i].col = c].ph)]
                   ELSE r[c]]
  IN  IF \E i \in 1..Len(as) : as[i].col \notin columns
      THEN [failed |-> "column does not exist", rows |-> rows, returning |-> {}]
      ELSE IF \E r \in hit : ~PrimaryKeyFree(rows \ hit, keyCol, set(r)[keyCol])
      THEN [failed |-> "duplicate key", rows |-> rows, returning |-> {}]
      ELSE [failed |-> "",
            rows |-> (rows \ hit) \cup {set(r) : r \in hit},
            returning |-> {set(r) : r \in hit}]

\* an UPDATE that stored D1 and returns result; when it changed a key that
\* dependent rows refer to, it is refused, or the dependent rows follow
\* (Dcascade)
KeyUpdate(D, D1, Dcascade, result, message, hasDependents) ==
  IF ~hasDependents THEN {Outcome(D1, result)}
  ELSE {IF mode = "restrict" THEN Outcome(D, DbError(<<"foreign key: ", message>>))
        ELSE Outcome(Dcascade, result)
        : mode \in OnDeleteModes}

-----------------------------------------------------------------------------
(* models/company.js *)

CompanyAliases ==
  [handle |-> "handle", name |-> "name", description |-> "description",
   numEmployees |-> "num_employees", logoUrl |-> "logo_url"]

CompanyJsToSql == [numEmployees |-> "num_employees", logoUrl |-> "logo_url"]

\* Company.create: SELECT handle FROM companies WHERE handle = $1
CompanyDuplicateCheck(D, handle) == SelectWhere(D.companies, "handle", handle) # {}

\* Company.create: INSERT INTO companies ... RETURNING ...
CompanyInsert(D, c) ==
  LET row == [handle |-> c.handle, name |-> c.name, description |-> c.description,
              num_employees |-> c.numEmployees, logo_url |-> c.logoUrl]
  IN  IF ~PrimaryKeyFree(D.companies, "handle", c.handle)
      THEN {Outcome(D, DbError(<<"duplicate key: companies ", c.handle>>))}
      ELSE {Outcome([D EXCEPT !.companies = @ \cup {row}],
                    Ok(Project(row, CompanyAliases)))}

CompanyCreateMutNoCheck(D, c) == CompanyInsert(D, c)
CompanyCreate(D, c) ==
  IF CompanyDuplicateCheck(D, c.handle)
  THEN {Outcome(D, BadRequestError(<<"Duplicate company: ", c.handle>>))}
  ELSE CompanyInsert(D, c)

\* An optional filter argument: absent (undefined) or a value
Absent(default) == [present |-> FALSE, v |-> default]
Given(v) == [present |-> TRUE, v |-> v]
\* if (name): undefined and "" are falsy
TruthyText(a) == a.present /\ a.v # ""
\* if (minEmployees): undefined and 0 are falsy
TruthyNum(a) == a.present /\ a.v # 0
\* if (hasEquity): undefined and false are falsy
TruthyBool(a) == a.present /\ a.v

\* the token before "$n" that names each predicate
NameFilter == "name ILIKE '%' ||$"
MinEmployeesFilter == "num_employees > $"
MaxEmployeesFilter == "num_employees < $"
TitleFilter == "title ILIKE '%' ||$"
MinSalaryFilter == "salary >= $"
EquityFilter == "equity > 0 "

\* values.push(v); filters.push(`<text>$${values.length}<tail>`)
PushFilter(acc, text, tail, v) ==
  [values |-> Append(acc.values, v),
   filters |-> Append(acc.filters, <<text, ToString(Len(acc.values) + 1)>> \o tail)]

\* filters.push(`<text>`) with no value
PushLiteral(acc, text) == [acc EXCEPT !.filters = Append(@, <<text>>)]

\* "WHERE " then each filter followed by " ", "AND " between them
RECURSIVE AndFilters(_, _)
AndFilters(filters, index) ==
  IF index > Len(filters) THEN <<>>
  ELSE (IF index # 1 THEN <<"AND ">> ELSE <<>>)
       \o filters[index] \o <<" ">> \o AndFilters(filters, index + 1)
ConcatenatedFilters(filters) ==
  IF Len(filters) > 0 THEN <<"WHERE ">> \o AndFilters(filters, 1) ELSE <<>>

\* one predicate of a WHERE clause on a row
Predicate(text, row, v) ==
  CASE text = NameFilter -> ILikeContains(row.name, v)
    [] text = MinEmployeesFilter -> row.num_employees > v
    [] text = MaxEmployeesFilter -> row.num_employees < v
    [] text = TitleFilter -> ILikeContains(row.title, v)
    [] text = MinSalaryFilter -> row.salary >= v

\* the WHERE clause the store evaluates on a row
RECURSIVE Where(_, _, _)
Where(clause, row, values) ==
  IF Len(clause) = 0 THEN TRUE
  ELSE IF Head(clause) \in {"WHERE ", "AND ", " ", " || '%'"}
       THEN Where(Tail(clause), row, values)
  ELSE IF Head(clause) = EquityFilter
       THEN row.equity > 0 /\ Where(Tail(clause), row, values)
  ELSE /\ Predicate(clause[1], row, values[PhNum(clause[2])])
       /\ Where(Tail(Tail(clause)), row, values)

CompanyFindAll(D, name, minEmployees, maxEmployees) ==
  LET a0 == [values |-> <<>>, filters |-> <<>>]
      a1 == IF TruthyText(name) THEN PushFilter(a0, NameFilter, <<" || '%'">>, name.v) ELSE a0
      a2 == IF TruthyNum(minEmployees)
            THEN PushFilter(a1, MinEmployeesFilter, <<>>, minEmployees.v) ELSE a1
      a3 == IF TruthyNum(maxEmployees)
            THEN PushFilter(a2, MaxEmployeesFilter, <<>>, maxEmployees.v) ELSE a2
      clause == ConcatenatedFilters(a3.filters)
      rows == {Project(r, CompanyAliases) : r \in {r \in D.companies : Where(clause, r, a3.values)}}
  IN  {Outcome(D, Ok(p)) : p \in Ordered(rows, "name")}

CompanyGet(D, handle) ==
  LET rows == SelectWhere(D.companies, "handle", handle)
  IN  IF rows = {}
      THEN {Outcome(D, NotFoundError(<<"No company: ", handle>>))}
      ELSE {Outcome(D, Ok(Project(FirstRow(rows), CompanyAliases)))}

CompanyUpdate(D, handle, data) ==
  LET sql == sqlForPartialUpdate(data, CompanyJsToSql)
  IN  IF ~sql.ok THEN {Outcome(D, sql)}
      ELSE
        LET handleVarIdx == ToString(Len(sql.values) + 1)
            upd == UpdateWhere(D.companies, CompanyColumns, "handle", sql.setCols,
                               handleVarIdx, Append(sql.values, handle))
        IN  IF upd.failed # "" THEN {Outcome(D, DbError(<<upd.failed>>))}
            ELSE IF upd.returning = {}
            THEN {Outcome(D, NotFoundError(<<"No company: ", handle>>))}
            ELSE
              LET company == FirstRow(upd.returning)
                  D1 == [D EXCEPT !.companies = upd.rows]
                  deps == SelectWhere(D.jobs, "company_handle", handle)
                  moved == {[j EXCEPT !.company_handle = company.handle] : j \in deps}
              IN  KeyUpdate(D, D1, [D1 EXCEPT !.jobs = (@ \ deps) \cup moved],
                            Ok(Project(company, CompanyAliases)), handle,
                            company.handle # handle /\ deps # {})

\* the applications of the given jobs
ApplicationsOfJobs(D, ids) == {a \in D.applications : a.job_id \in ids}

\* DELETE FROM companies WHERE handle = $1 RETURNING handle
CompanyRemove(D, handle) ==
  LET rows == SelectWhere(D.companies, "handle", handle)
      deps == SelectWhere(D.jobs, "company_handle", handle)
  IN  IF rows = {}
      THEN {Outcome(D, NotFoundError(<<"No company: ", handle>>))}
      ELSE IF deps = {}
      THEN {Outcome([D EXCEPT !.companies = @ \ rows], OkVoid)}
      ELSE {IF mode = "restrict"
            THEN Outcome(D, DbError(<<"foreign key: jobs ", handle>>))
            ELSE Outcome([D EXCEPT !.companies = @ \ rows,
                                   !.jobs = @ \ deps,
                                   !.applications =
                                     @ \ ApplicationsOfJobs(D, {j.id : j \in deps})],
                         OkVoid)
            : mode \in OnDeleteModes}

-----------------------------------------------------------------------------
(* models/job.js *)

JobAliases ==
  [id |-> "id", title |-> "title", salary |-> "salary", equity |-> "equity",
   companyHandle |-> "company_handle"]

\* Job.update passes an empty name-mapping
EmptyObject == <<>>

\* INSERT INTO jobs ... RETURNING ...; id comes from the sequence, which
\* advances whether or not the row is stored.
JobCreate(D, j) ==
  LET id == D.jobSeq + 1
      row == [id |-> id, title |-> j.title, salary |-> j.salary, equity |-> j.equity,
              company_handle |-> j.companyHandle]
      D1 == [D EXCEPT !.jobSeq = id]
  IN  IF ~ForeignKeyHolds(D.companies, "handle", j.companyHandle)
      THEN {Outcome(D1, DbError(<<"foreign key: companies ", j.companyHandle>>))}
      ELSE IF ~PrimaryKeyFree(D.jobs, "id", id)
      THEN {Outcome(D1, DbError(<<"duplicate key: jobs ", ToString(id)>>))}
      ELSE {Outcome([D1 EXCEPT !.jobs = @ \cup {row}], Ok(Project(row, JobAliases)))}

\* jobs j LEFT JOIN companies c ON c.handle = j.company_handle
JobJoinCompany(D, j) ==
  LET cs == SelectWhere(D.companies, "handle", j.company_handle)
  IN  [id |-> j.id, title |-> j.title, salary |-> j.salary, equity |-> j.equity,
       companyHandle |-> j.company_handle,
       companyName |-> IF cs = {} THEN "" ELSE FirstRow(cs).name]

JobFindAll(D, minSalary, hasEquity, title) ==
  LET a0 == [values |-> <<>>, filters |-> <<>>]
      a1 == IF TruthyText(title) THEN PushFilter(a0, TitleFilter, <<" || '%'">>, title.v) ELSE a0
      a2 == IF TruthyNum(minSalary) THEN PushFilter(a1, MinSalaryFilter, <<>>, minSalary.v) ELSE a1
      a3 == IF TruthyBool(hasEquity) THEN PushLiteral(a2, EquityFilter) ELSE a2
      clause == ConcatenatedFilters(a3.filters)
      rows == {JobJoinCompany(D, j) : j \in {j \in D.jobs : Where(clause, j, a3.values)}}
  IN  {Outcome(D, Ok(p)) : p \in Ordered(rows, "c.name, j.title")}

JobGet(D, id) ==
  LET rows == SelectWhere(D.jobs, "id", id)
  IN  IF rows = {}
      THEN {Outcome(D, NotFoundError(<<"No job with Id: ", ToString(id)>>))}
      ELSE
        LET job == Project(FirstRow(rows), JobAliases)
            cs == SelectWhere(D.companies, "handle", job.companyHandle)
            company == {Project(c, CompanyAliases) : c \in cs}
        IN  {Outcome(D, Ok([k \in ((DOMAIN job) \ {"companyHandle"}) \cup {"company"} |->
                               IF k = "company" THEN company ELSE job[k]]))}

JobUpdate(D, id, data) ==
  LET sql == sqlForPartialUpdate(data, EmptyObject)
  IN  IF ~sql.ok THEN {Outcome(D, sql)}
      ELSE
        LET idVarIdx == ToString(Len(sql.values) + 1)
            upd == UpdateWhere(D.jobs, JobColumns, "id", sql.setCols,
                               idVarIdx, Append(sql.values, id))
        IN  IF upd.failed # "" THEN {Outcome(D, DbError(<<upd.failed>>))}
            ELSE IF upd.returning = {}
            THEN {Outcome(D, NotFoundError(<<"No job: ", ToString(id)>>))}
            ELSE
              LET job == FirstRow(upd.returning)
                  D1 == [D EXCEPT !.jobs = upd.rows]
                  deps == ApplicationsOfJobs(D, {id})
                  moved == {[a EXCEPT !.job_id = job.id] : a \in deps}
              IN  KeyUpdate(D, D1, [D1 EXCEPT !.applications = (@ \ deps) \cup moved],
                            Ok(Project(job, JobAliases)), ToString(id),
                            job.id # id /\ deps # {})

\* DELETE FROM jobs WHERE id = $1 RETURNING id
JobRemoveMutNoCheck(D, id) ==
  {Outcome([D EXCEPT !.jobs = @ \ SelectWhere(D.jobs, "id", id)], OkVoid)}
JobRemove(D, id) ==
  LET rows == SelectWhere(D.jobs, "id", id)
      deps == ApplicationsOfJobs(D, {id})
  IN  IF rows = {}
      THEN {Outcome(D, NotFoundError(<<"No job: ", ToString(id)>>))}
      ELSE IF deps = {}
      THEN {Outcome([D EXCEPT !.jobs = @ \ rows], OkVoid)}
      ELSE {IF mode = "restrict"
            THEN Outcome(D, DbError(<<"foreign key: applications ", ToString(id)>>))
            ELSE Outcome([D EXCEPT !.jobs = @ \ rows, !.applications = @ \ deps], OkVoid)
            : mode \in OnDeleteModes}

-----------------------------------------------------------------------------
(* models/user.js *)

\* A string as the password column or a password argument holds it: the
\* text itself, or the bcrypt digest of a text under a salt.
PlainText(s) == [alg |-> "none", salt |-> "", of |-> s]
BcryptHash(s, salt) == [alg |-> "bcrypt", salt |-> salt, of |-> s]
\* bcrypt.compare(password, hash)
BcryptCompare(password, stored) == stored.alg = "bcrypt" /\ stored.of = password
\* the salts bcrypt.hash may draw
Salts == {"s1", "s2"}

UserAliases ==
  [username |-> "username", firstName |-> "first_name", lastName |-> "last_name",
   email |-> "email", isAdmin |-> "is_admin"]
UserAliasesWithPassword ==
  [username |-> "username", password |-> "password", firstName |-> "first_name",
   lastName |-> "last_name", email |-> "email", isAdmin |-> "is_admin"]

UserJsToSql == [firstName |-> "first_name", lastName |-> "last_name", isAdmin |-> "is_admin"]

InvalidCredentials == UnauthorizedError(<<"Invalid username/password">>)

UserAuthenticateMutNoCompare(D, username, password) ==
  LET rows == SelectWhere(D.users, "username", username)
  IN  IF rows # {}
      THEN {Outcome(D, Ok(DeleteProp(Project(FirstRow(rows), UserAliasesWithPassword),
                                     "password")))}
      ELSE {Outcome(D, InvalidCredentials)}
UserAuthenticate(D, username, password) ==
  LET rows == SelectWhere(D.users, "username", username)
  IN  IF rows # {} /\ BcryptCompare(password, FirstRow(rows).password)
      THEN {Outcome(D, Ok(DeleteProp(Project(FirstRow(rows), UserAliasesWithPassword),
                                     "password")))}
      ELSE {Outcome(D, InvalidCredentials)}

\* User.register: SELECT username FROM users WHERE username = $1
UserDuplicateCheck(D, username) == SelectWhere(D.users, "username", username) # {}

\* User.register: INSERT INTO users ... RETURNING ...
UserInsert(D, u, hashedPassword) ==
  LET row == [username |-> u.username, password |-> hashedPassword,
              first_name |-> u.firstName, last_name |-> u.lastName,
              email |-> u.email, is_admin |-> u.isAdmin]
  IN  IF ~PrimaryKeyFree(D.users, "username", u.username)
      THEN Outcome(D, DbError(<<"duplicate key: users ", u.username>>))
      ELSE Outcome([D EXCEPT !.users = @ \cup {row}], Ok(Project(row, UserAliases)))

UserRegister(D, u) ==
  IF UserDuplicateCheck(D, u.username)
  THEN {Outcome(D, BadRequestError(<<"Duplicate username: ", u.username>>))}
  ELSE {UserInsert(D, u, BcryptHash(u.password, salt)) : salt \in Salts}

UserFindAll(D) ==
  {Outcome(D, Ok(p)) : p \in Ordered({Project(r, UserAliases) : r \in D.users}, "username")}

UserGetMutAllApplications(D, username) ==
  LET rows == SelectWhere(D.users, "username", username)
  IN  IF rows = {}
      THEN {Outcome(D, NotFoundError(<<"No user: ", username>>))}
      ELSE
        LET user == Project(FirstRow(rows), UserAliases)
        IN  {Outcome(D, Ok([k \in (DOMAIN user) \cup {"jobs"} |->
                               IF k = "jobs" THEN [i \in 1..Len(p) |-> p[i].job_id]
                               ELSE user[k]]))
             : p \in Perms(D.applications)}
UserGet(D, username) ==
  LET rows == SelectWhere(D.users, "username", username)
  IN  IF rows = {}
      THEN {Outcome(D, NotFoundError(<<"No user: ", username>>))}
      ELSE
        LET user == Project(FirstRow(rows), UserAliases)
            apps == SelectWhere(D.applications, "username", username)
        IN  {Outcome(D, Ok([k \in (DOMAIN user) \cup {"jobs"} |->
                               IF k = "jobs" THEN [i \in 1..Len(p) |-> p[i].job_id]
                               ELSE user[k]]))
             : p \in Perms(apps)}

\* if (data.password): an absent key and "" are falsy
TruthyPassword(data) ==
  /\ \E i \in 1..Len(data.keys) : data.keys[i] = "password"
  /\ data.vals.password # PlainText("")

\* data.password = await bcrypt.hash(data.password, BCRYPT_WORK_FACTOR)
HashPassword(data, salt) ==
  [data EXCEPT !.vals.password = BcryptHash(data.vals.password.of, salt)]

UserUpdateWith(D, username, data) ==
  LET sql == sqlForPartialUpdate(data, UserJsToSql)
  IN  IF ~sql.ok THEN {Outcome(D, sql)}
      ELSE
        LET usernameVarIdx == ToString(Len(sql.values) + 1)
            upd == UpdateWhere(D.users, UserColumns, "username", sql.setCols,
                               usernameVarIdx, Append(sql.values, username))
        IN  IF upd.failed # "" THEN {Outcome(D, DbError(<<upd.failed>>))}
            ELSE IF upd.returning = {}
            THEN {Outcome(D, NotFoundError(<<"No user: ", username>>))}
            ELSE
              LET user == FirstRow(upd.returning)
                  D1 == [D EXCEPT !.users = upd.rows]
                  deps == SelectWhere(D.applications, "username", username)
                  moved == {[a EXCEPT !.username = user.username] : a \in deps}
              IN  KeyUpdate(D, D1, [D1 EXCEPT !.applications = (@ \ deps) \cup moved],
                            Ok(DeleteProp(Project(user, UserAliases), "password")),
                            username, user.username # username /\ deps # {})

UserUpdate(D, username, data) ==
  IF TruthyPassword(data)
  THEN UNION {UserUpdateWith(D, username, HashPassword(data, salt)) : salt \in Salts}
  ELSE UserUpdateWith(D, username, data)

\* DELETE FROM users WHERE username = $1 RETURNING username
UserRemove(D, username) ==
  LET rows == SelectWhere(D.users, "username", username)
      deps == SelectWhere(D.applications, "username", username)
  IN  IF rows = {}
      THEN {Outcome(D, NotFoundError(<<"No user: ", username>>))}
      ELSE IF deps = {}
      THEN {Outcome([D EXCEPT !.users = @ \ rows], OkVoid)}
      ELSE {IF mode = "restrict"
            THEN Outcome(D, DbError(<<"foreign key: applications ", username>>))
            ELSE Outcome([D EXCEPT !.users = @ \ rows, !.applications = @ \ deps], OkVoid)
            : mode \in OnDeleteModes}

\* User.applyToJob: SELECT id FROM jobs WHERE id = $1
JobSearch(D, jobId) == SelectWhere(D.jobs, "id", jobId)
\* User.applyToJob: SELECT username FROM users WHERE username = $1
UserSearch(D, username) == SelectWhere(D.users, "username", username)

\* the key of applications: one row per (username, job_id)
ApplicationKeyFree(D, username, jobId) ==
  \A a \in D.applications : ~(a.username = username /\ a.job_id = jobId)

\* User.applyToJob: INSERT INTO applications (job_id, username) VALUES ($1, $2)
ApplicationInsert(D, username, jobId) ==
  IF ~ForeignKeyHolds(D.jobs, "id", jobId)
  THEN Outcome(D, DbError(<<"foreign key: jobs ", ToString(jobId)>>))
  ELSE IF ~ForeignKeyHolds(D.users, "username", username)
  THEN Outcome(D, DbError(<<"foreign key: users ", username>>))
  ELSE IF ~ApplicationKeyFree(D, username, jobId)
  THEN Outcome(D, DbError(<<"duplicate key: applications ", username, ToString(jobId)>>))
  ELSE Outcome([D EXCEPT !.applications = @ \cup {[username |-> username, job_id |-> jobId]}],
               OkVoid)

UserApplyToJobMutNoUserCheck(D, username, jobId) ==
  IF JobSearch(D, jobId) = {}
  THEN {Outcome(D, NotFoundError(<<"Job with id: ", ToString(jobId), " not found">>))}
  ELSE {ApplicationInsert(D, username, jobId)}
UserApplyToJob(D, username, jobId) ==
  IF JobSearch(D, jobId) = {}
  THEN {Outcome(D, NotFoundError(<<"Job with id: ", ToString(jobId), " not found">>))}
  ELSE IF UserSearch(D, username) = {}
  THEN {Outcome(D, NotFoundError(<<"No username with id: ", username>>))}
  ELSE {ApplicationInsert(D, username, jobId)}

-----------------------------------------------------------------------------
(* Requests: the arguments the operations are called with *)

Handles == {"c1", "c2"}
Usernames == {"u1", "u2"}
JobIdArgs == {1, 2, 3}
Passwords == {"pw1", "pw2", ""}

CompanyInputs ==
  {[handle |-> h, name |-> v.name, description |-> "d1",
    numEmployees |-> v.numEmployees, logoUrl |-> "l1"]
   : h \in Handles, v \in {[name |-> "Ab", numEmployees |-> 2],
                           [name |-> "b", numEmployees |-> 3]}}

CompanyUpdateVals ==
  [name |-> "ba", description |-> "d2", numEmployees |-> 5, logoUrl |-> "l2", bogus |-> "x"]
CompanyUpdateData ==
  {[keys |-> ks, vals |-> CompanyUpdateVals]
   : ks \in {<<>>, <<"name">>, <<"numEmployees", "logoUrl">>, <<"description">>, <<"bogus">>}}

NameArgs == {Absent(""), Given("A")}
MinEmployeesArgs == {Absent(0), Given(0), Given(2)}
MaxEmployeesArgs == {Absent(0), Given(3)}

JobInputs ==
  {[title |-> v.title, salary |-> v.salary, equity |-> v.equity, companyHandle |-> h]
   : h \in Handles, v \in {[title |-> "Ab", salary |-> 100, equity |-> 0],
                           [title |-> "b", salary |-> 200, equity |-> 5]}}

JobUpdateVals == [title |-> "ba", salary |-> 300, equity |-> 1, companyHandle |-> "c2"]
JobUpdateData ==
  {[keys |-> ks, vals |-> JobUpdateVals]
   : ks \in {<<>>, <<"title">>, <<"salary", "equity">>, <<"companyHandle">>}}

MinSalaryArgs == {Absent(0), Given(0), Given(200)}
HasEquityArgs == {Absent(FALSE), Given(TRUE)}
TitleArgs == {Absent(""), Given("A")}

UserInputs ==
  {[username |-> u, password |-> v.password, firstName |-> v.firstName,
    lastName |-> "ln1", email |-> "e1", isAdmin |-> v.isAdmin]
   : u \in Usernames, v \in {[password |-> "pw1", firstName |-> "fn1", isAdmin |-> FALSE],
                             [password |-> "pw2", firstName |-> "fn2", isAdmin |-> TRUE]}}

UserUpdateVals(pw) ==
  [firstName |-> "fn3", lastName |-> "ln2", password |-> PlainText(pw),
   email |-> "e2", isAdmin |-> TRUE, bogus |-> "x"]
UserUpdateData ==
  {[keys |-> ks, vals |-> UserUpdateVals("pw2")]
   : ks \in {<<>>, <<"firstName">>, <<"password">>, <<"lastName", "password">>,
             <<"isAdmin", "email">>, <<"bogus">>}}
  \cup {[keys |-> <<"password">>, vals |-> UserUpdateVals("")]}

-----------------------------------------------------------------------------
(* The databases a run starts from: built by the operations below *)

SeedDb ==
  [companies |->
  {[handle |-> "c1", name |-> "Ab", description |-> "d1", num_employees |-> 2, logo_url |-> "l1"],
   [handle |-> "c2", name |-> "b", description |-> "d1", num_employees |-> 3, logo_url |-> "l1"]},
   jobs |->
  {[id |-> 1, title |-> "Ab", salary |-> 100, equity |-> 0, company_handle |-> "c1"],
   [id |-> 2, title |-> "b", salary |-> 200, equity |-> 5, company_handle |-> "c1"]},
   users |->
  {[username |-> "u1", password |-> BcryptHash("pw1", "s1"), first_name |-> "fn1",
    last_name |-> "ln1", email |-> "e1", is_admin |-> FALSE]},
   applications |-> {}, jobSeq |-> 2]

EmptyDb == [companies |-> {}, jobs |-> {}, users |-> {}, applications |-> {}, jobSeq |-> 0]
AppliedDb == [SeedDb EXCEPT !.applications = {[username |-> "u1", job_id |-> 1]}]

Seeds == {EmptyDb, SeedDb, AppliedDb}

\* operations a run makes at most
MaxOps == 2

-----------------------------------------------------------------------------
(* One request at a time: each operation runs from its first query to its
   return before the next starts *)

Init ==
  /\ \E D \in Seeds :
       /\ companies = D.companies /\ jobs = D.jobs /\ users = D.users
       /\ applications = D.applications /\ jobSeq = D.jobSeq
  /\ last = [op |-> "none"]
  /\ nops = 0
  /\ procs = NoProcs

\* the operation op(args) returns one of outcomes
Return(op, args, outcomes) ==
  /\ nops < MaxOps
  /\ \E o \in outcomes :
       /\ companies' = o.db.companies
       /\ jobs' = o.db.jobs
       /\ users' = o.db.users
       /\ applications' = o.db.applications
       /\ jobSeq' = o.db.jobSeq
       /\ last' = [op |-> op, args |-> args, before |-> Db, result |-> o.result]
  /\ nops' = nops + 1
  /\ UNCHANGED procs

DoCompanyCreate == \E c \in CompanyInputs : Return("Company.create", c, CompanyCreate(Db, c))
DoCompanyFindAll ==
  \E n \in NameArgs, lo \in MinEmployeesArgs, hi \in MaxEmployeesArgs :
    Return("Company.findAll", [name |-> n, minEmployees |-> lo, maxEmployees |-> hi],
           CompanyFindAll(Db, n, lo, hi))
DoCompanyGet == \E h \in Handles : Return("Company.get", [key |-> h], CompanyGet(Db, h))
DoCompanyUpdate ==
  \E h \in Handles, d \in CompanyUpdateData :
    Return("Company.update", [key |-> h, data |-> d], CompanyUpdate(Db, h, d))
DoCompanyRemove == \E h \in Handles : Return("Company.remove", [key |-> h], CompanyRemove(Db, h))

DoJobCreate == \E j \in JobInputs : Return("Job.create", j, JobCreate(Db, j))
DoJobFindAll ==
  \E lo \in MinSalaryArgs, eq \in HasEquityArgs, t \in TitleArgs :
    Return("Job.findAll", [minSalary |-> lo, hasEquity |-> eq, title |-> t],
           JobFindAll(Db, lo, eq, t))
DoJobGet == \E id \in JobIdArgs : Return("Job.get", [key |-> id], JobGet(Db, id))
DoJobUpdate ==
  \E id \in JobIdArgs, d \in JobUpdateData :
    Return("Job.update", [key |-> id, data |-> d], JobUpdate(Db, id, d))
DoJobRemove == \E id \in JobIdArgs : Return("Job.remove", [key |-> id], JobRemove(Db, id))

DoUserAuthenticate ==
  \E u \in Usernames, pw \in Passwords :
    Return("User.authenticate", [username |-> u, password |-> pw], UserAuthenticate(Db, u, pw))
DoUserRegister == \E u \in UserInputs : Return("User.register", u, UserRegister(Db, u))
DoUserFindAll == Return("User.findAll", [none |-> TRUE], UserFindAll(Db))
DoUserGet == \E u \in Usernames : Return("User.get", [key |-> u], UserGet(Db, u))
DoUserUpdate ==
  \E u \in Usernames, d \in UserUpdateData :
    Return("User.update", [key |-> u, data |-> d], UserUpdate(Db, u, d))
DoUserRemove == \E u \in Usernames : Return("User.remove", [key |-> u], UserRemove(Db, u))
DoUserApplyToJob ==
  \E u \in Usernames, id \in JobIdArgs :
    Return("User.applyToJob", [username |-> u, jobId |-> id], UserApplyToJob(Db, u, id))

Next ==
  \/ DoCompanyCreate \/ DoCompanyFindAll \/ DoCompanyGet \/ DoCompanyUpdate \/ DoCompanyRemove
  \/ DoJobCreate \/ DoJobFindAll \/ DoJobGet \/ DoJobUpdate \/ DoJobRemove
  \/ DoUserAuthenticate \/ DoUserRegister \/ DoUserFindAll \/ DoUserGet
  \/ DoUserUpdate \/ DoUserRemove \/ DoUserApplyToJob

Spec == Init /\ [][Next]_vars

-----------------------------------------------------------------------------
(* Concurrent requests: each await of a query is a point where another
   request's queries may run.  A call of one query runs in one step; create,
   register and applyToJob run one query per step. *)

Procs == {"p1", "p2"}

\* calls the requests make at most, all together
MaxCalls == 3

\* the result of a call that has not returned
Pending == Ok("pending")

ConcCompanyInputs == {c \in CompanyInputs : c.handle = "c1"}
ConcUserInputs == {u \in UserInputs : u.username = "u1"}
ConcJobInputs == {j \in JobInputs : j.companyHandle = "c1" /\ j.title = "b"}

\* updates that move a row to another key, and one that does not
ConcCompanyUpdateData ==
  {[keys |-> ks, vals |-> [handle |-> "c2", name |-> "ba"]] : ks \in {<<"handle">>, <<"name">>}}
ConcJobUpdateData ==
  {[keys |-> ks, vals |-> [id |-> 3, title |-> "ba"]] : ks \in {<<"id">>, <<"title">>}}
ConcUserUpdateData ==
  {[keys |-> ks, vals |-> [username |-> "u2", email |-> "e2", password |-> PlainText("pw2")]]
   : ks \in {<<"username">>, <<"email">>}}

ConcInit ==
  /\ \E D \in Seeds :
       /\ companies = D.companies /\ jobs = D.jobs /\ users = D.users
       /\ applications = D.applications /\ jobSeq = D.jobSeq
  /\ last = [op |-> "none"]
  /\ nops = 0
  /\ procs = [p \in Procs |-> [pc |-> "idle", op |-> "none", args |-> <<>>, result |-> Pending]]

Store(D) ==
  /\ companies' = D.companies
  /\ jobs' = D.jobs
  /\ users' = D.users
  /\ applications' = D.applications
  /\ jobSeq' = D.jobSeq

\* request p enters op(args) and awaits its first query
Begin(p, op, args, pc) ==
  /\ procs[p].pc = "idle"
  /\ nops < MaxCalls
  /\ procs' = [procs EXCEPT ![p] = [pc |-> pc, op |-> op, args |-> args, result |-> Pending]]
  /\ nops' = nops + 1
  /\ UNCHANGED <<db_vars, last>>

\* request p runs op(args), a call of one query, and returns
Call(p, op, args, outcomes) ==
  /\ procs[p].pc = "idle"
  /\ nops < MaxCalls
  /\ \E o \in outcomes :
       /\ Store(o.db)
       /\ procs' = [procs EXCEPT ![p] = [pc |-> "idle", op |-> op, args |-> args,
                                         result |-> o.result]]
  /\ nops' = nops + 1
  /\ UNCHANGED last

At(p, op, pc) == procs[p].op = op /\ procs[p].pc = pc

\* request p moves on to its next query
Goto(p, pc) ==
  /\ procs' = [procs EXCEPT ![p].pc = pc]
  /\ UNCHANGED <<db_vars, last, nops>>

\* request p returns or throws
Finish(p, D, result) ==
  /\ Store(D)
  /\ procs' = [procs EXCEPT ![p].pc = "idle", ![p].result = result]
  /\ UNCHANGED <<last, nops>>

BeginCompanyCreate(p) == \E c \in ConcCompanyInputs : Begin(p, "Company.create", c, "check")
CompanyCreateCheck(p) ==
  /\ At(p, "Company.create", "check")
  /\ IF CompanyDuplicateCheck(Db, procs[p].args.handle)
     THEN Finish(p, Db, BadRequestError(<<"Duplicate company: ", procs[p].args.handle>>))
     ELSE Goto(p, "insert")
CompanyCreateInsert(p) ==
  /\ At(p, "Company.create", "insert")
  /\ \E o \in CompanyInsert(Db, procs[p].args) : Finish(p, o.db, o.result)

BeginUserRegister(p) == \E u \in ConcUserInputs : Begin(p, "User.register", u, "check")
UserRegisterCheck(p) ==
  /\ At(p, "User.register", "check")
  /\ IF UserDuplicateCheck(Db, procs[p].args.username)
     THEN Finish(p, Db, BadRequestError(<<"Duplicate username: ", procs[p].args.username>>))
     ELSE Goto(p, "insert")
\* bcrypt.hash touches no stored state: it runs with the INSERT
UserRegisterInsert(p) ==
  /\ At(p, "User.register", "insert")
  /\ \E salt \in Salts :
       LET o == UserInsert(Db, procs[p].args, BcryptHash(procs[p].args.password, salt))
       IN  Finish(p, o.db, o.result)

BeginApplyToJob(p) ==
  \E u \in {"u1"}, id \in {1, 2} :
    Begin(p, "User.applyToJob", [username |-> u, jobId |-> id], "jobSearch")
ApplyJobSearch(p) ==
  /\ At(p, "User.applyToJob", "jobSearch")
  /\ IF JobSearch(Db, procs[p].args.jobId) = {}
     THEN Finish(p, Db, NotFoundError(<<"Job with id: ", ToString(procs[p].args.jobId),
                                        " not found">>))
     ELSE Goto(p, "userSearch")
ApplyUserSearch(p) ==
  /\ At(p, "User.applyToJob", "userSearch")
  /\ IF UserSearch(Db, procs[p].args.username) = {}
     THEN Finish(p, Db, NotFoundError(<<"No username with id: ", procs[p].args.username>>))
     ELSE Goto(p, "insert")
ApplyInsert(p) ==
  /\ At(p, "User.applyToJob", "insert")
  /\ LET o == ApplicationInsert(Db, procs[p].args.username, procs[p].args.jobId)
     IN  Finish(p, o.db, o.result)

CallJobCreate(p) == \E j \in ConcJobInputs : Call(p, "Job.create", j, JobCreate(Db, j))
CallCompanyUpdate(p) ==
  \E d \in ConcCompanyUpdateData :
    Call(p, "Company.update", [key |-> "c1", data |-> d], CompanyUpdate(Db, "c1", d))
CallJobUpdate(p) ==
  \E d \in ConcJobUpdateData :
    Call(p, "Job.update", [key |-> 1, data |-> d], JobUpdate(Db, 1, d))
CallUserUpdate(p) ==
  \E d \in ConcUserUpdateData :
    Call(p, "User.update", [key |-> "u1", data |-> d], UserUpdate(Db, "u1", d))
CallCompanyRemove(p) == Call(p, "Company.remove", [key |-> "c1"], CompanyRemove(Db, "c1"))
CallJobRemove(p) == Call(p, "Job.remove", [key |-> 1], JobRemove(Db, 1))
CallUserRemove(p) == Call(p, "User.remove", [key |-> "u1"], UserRemove(Db, "u1"))

ConcNext ==
  \E p \in Procs :
    \/ BeginCompanyCreate(p) \/ CompanyCreateCheck(p) \/ CompanyCreateInsert(p)
    \/ BeginUserRegister(p) \/ UserRegisterCheck(p) \/ UserRegisterInsert(p)
    \/ BeginApplyToJob(p) \/ ApplyJobSearch(p) \/ ApplyUserSearch(p) \/ ApplyInsert(p)
    \/ CallJobCreate(p) \/ CallCompanyUpdate(p) \/ CallJobUpdate(p) \/ CallUserUpdate(p)
    \/ CallCompanyRemove(p) \/ CallJobRemove(p) \/ CallUserRemove(p)

ConcSpec == ConcInit /\ [][ConcNext]_vars

-----------------------------------------------------------------------------
(* The fragment builder on its own *)

SqlKeys == {"firstName", "age", "constructor"}
SqlMapKeys == {"firstName", "age"}
SqlColNames == {"first_name", ""}

SqlVals ==
  {[firstName |-> "Aliya", age |-> 32, constructor |-> "c"],
   [firstName |-> "Bo", age |-> 7, constructor |-> "d"]}

\* sequences of distinct keys, MaxKeys long at most
KeySeqs(keys, n) ==
  {s \in UNION {[1..m -> keys] : m \in 0..n} :
     \A i, j \in 1..Len(s) : i # j => s[i] # s[j]}

SqlData == {[keys |-> ks, vals |-> vs] : ks \in KeySeqs(SqlKeys, MaxKeys), vs \in SqlVals}
SqlMaps == UNION {[S -> SqlColNames] : S \in SUBSET SqlMapKeys}

SqlInit ==
  /\ companies = {} /\ jobs = {} /\ users = {} /\ applications = {}
  /\ jobSeq = 0 /\ nops = 0 /\ procs = NoProcs
  /\ \E d \in SqlData, m \in SqlMaps :
       last = [op |-> "input", data |-> d, jsToSql |-> m]

SqlApply ==
  /\ last.op = "input"
  /\ last' = [op |-> "sqlForPartialUpdate", data |-> last.data,
              jsToSql |-> last.jsToSql,
              result |-> sqlForPartialUpdate(last.data, last.jsToSql)]
  /\ UNCHANGED <<db_vars, nops, procs>>

SqlSpec == SqlInit /\ [][SqlApply]_vars

-----------------------------------------------------------------------------
(* Claims about the fragment builder (checked under SqlSpec) *)

SqlDone == last.op = "sqlForPartialUpdate"
SqlN == Len(last.data.keys)

\* the pieces of the k-th assignment of a set clause of n assignments joined
\* by ", ": quote, column, quote, "=$", number
AssignAt(setCols, k) == SubSeq(setCols, 6 * (k - 1) + 1, 6 * (k - 1) + 5)

\* C1: for a non-empty data mapping with N keys the result holds a setCols
\* of exactly N assignments joined by ", ", the k-th with placeholder $k, and
\* a values list of length N whose k-th element is the value of the k-th key.
C1_OneAssignmentPerKey ==
  (SqlDone /\ SqlN > 0) =>
    /\ last.result.ok
    /\ Len(last.result.setCols) = 6 * SqlN - 1
    /\ \A k \in 1..SqlN :
         /\ AssignAt(last.result.setCols, k)[1] = "\""
         /\ AssignAt(last.result.setCols, k)[3] = "\""
         /\ AssignAt(last.result.setCols, k)[4] = "=$"
         /\ AssignAt(last.result.setCols, k)[5] = ToString(k)
         /\ k < SqlN => last.result.setCols[6 * k] = ", "
    /\ Len(last.result.values) = SqlN
    /\ \A k \in 1..SqlN :
         last.result.values[k] = last.data.vals[last.data.keys[k]]

C1_Witness ==
  /\ SqlDone /\ SqlN = 2
  /\ last.data.keys = <<"firstName", "age">>
  /\ last.result.ok
  /\ last.result.values = <<"Aliya", 32>>

\* C2: an empty data mapping fails with BadRequestError whatever the
\* name-mapping is, and no setCols/values come back.
C2_EmptyDataBadRequest ==
  (SqlDone /\ SqlN = 0) =>
    /\ ~last.result.ok
    /\ last.result.error.name = "BadRequestError"
    /\ "setCols" \notin DOMAIN last.result
    /\ "values" \notin DOMAIN last.result

C2_Witness ==
  /\ SqlDone /\ SqlN = 0
  /\ DOMAIN last.jsToSql = {"firstName", "age"}
  /\ ~last.result.ok

\* C3 (as claimed): the column of each assignment is the name-mapping's entry
\* for the field when the field is present in the name-mapping, and the field
\* name itself when it is absent.
C3_ColumnIsEntryOrField ==
  (SqlDone /\ SqlN > 0) =>
    \A k \in 1..SqlN :
      AssignAt(last.result.setCols, k)[2] =
        IF last.data.keys[k] \in DOMAIN last.jsToSql
        THEN last.jsToSql[last.data.keys[k]]
        ELSE last.data.keys[k]

-----------------------------------------------------------------------------
(* Claims about the operations, one request at a time (checked under Spec) *)

Range(f) == {f[i] : i \in DOMAIN f}
Failed(name) == ~last.result.ok /\ last.result.error.name = name
Unchanged == Db = last.before

\* C4: creating a primary key that is already stored (Company.create on a
\* stored handle, User.register on a stored username) fails with
\* BadRequestError and leaves the stored row, and the whole store, as it was.
C4_DuplicateCreateRejected ==
  /\ (last.op = "Company.create"
      /\ \E r \in last.before.companies : r.handle = last.args.handle)
     => (Failed("BadRequestError") /\ Unchanged)
  /\ (last.op = "User.register"
      /\ \E r \in last.before.users : r.username = last.args.username)
     => (Failed("BadRequestError") /\ Unchanged)

\* the second of two Company.create calls with one handle and different data
C4_Witness ==
  /\ nops = 2 /\ jobSeq = 0 /\ users = {}
  /\ last.op = "Company.create"
  /\ Failed("BadRequestError")
  /\ Cardinality(companies) = 1
  /\ \E r \in companies : r.handle = last.args.handle /\ r.name # last.args.name

KeyedOps ==
  {"Company.get", "Company.update", "Company.remove",
   "Job.get", "Job.update", "Job.remove",
   "User.get", "User.update", "User.remove"}
UpdateOps == {"Company.update", "Job.update", "User.update"}

\* the key of the last keyed call matches no stored row
NoSuchKey ==
  CASE last.op \in {"Company.get", "Company.update", "Company.remove"} ->
         \A r \in last.before.companies : r.handle # last.args.key
    [] last.op \in {"Job.get", "Job.update", "Job.remove"} ->
         \A r \in last.before.jobs : r.id # last.args.key
    [] last.op \in {"User.get", "User.update", "User.remove"} ->
         \A r \in last.before.users : r.username # last.args.key

\* the fields the documentation of each update lists
Updatable(op) ==
  CASE op = "Company.update" -> {"name", "description", "numEmployees", "logoUrl"}
    [] op = "Job.update" -> {"title", "salary", "equity"}
    [] op = "User.update" -> {"firstName", "lastName", "password", "email", "isAdmin"}

\* C5 (as claimed): get, update and remove on a key that matches no row fail
\* with NotFoundError for every argument, every update data mapping included,
\* and leave the store unchanged.
C5_MissingKeyAlwaysNotFound ==
  (last.op \in KeyedOps /\ NoSuchKey) => (Failed("NotFoundError") /\ Unchanged)

\* C5 (amended): on a key that matches no row, get and remove fail with
\* NotFoundError, and so does update with a non-empty data mapping of the
\* entity's updatable fields; update with an empty data mapping fails with
\* BadRequestError; in every case the store is unchanged.
C5_MissingKeyNotFound ==
  (last.op \in KeyedOps /\ NoSuchKey) =>
    /\ Unchanged
    /\ ~last.result.ok
    /\ last.op \notin UpdateOps => Failed("NotFoundError")
    /\ (last.op \in UpdateOps /\ Len(last.args.data.keys) = 0) => Failed("BadRequestError")
    /\ (last.op \in UpdateOps /\ Len(last.args.data.keys) > 0
        /\ Range(last.args.data.keys) \subseteq Updatable(last.op))
       => Failed("NotFoundError")

C5_Witness ==
  /\ last.op = "Job.remove" /\ NoSuchKey
  /\ last.before.jobs # {}
  /\ Failed("NotFoundError")

\* the rows a list operation should return, by what each filter means
CompanyMatches(r, a) ==
  /\ TruthyText(a.name) => ILikeContains(r.name, a.name.v)
  /\ TruthyNum(a.minEmployees) => r.num_employees >= a.minEmployees.v
  /\ TruthyNum(a.maxEmployees) => r.num_employees <= a.maxEmployees.v
JobMatches(r, a) ==
  /\ TruthyText(a.title) => ILikeContains(r.title, a.title.v)
  /\ TruthyNum(a.minSalary) => r.salary >= a.minSalary.v
  /\ TruthyBool(a.hasEquity) => r.equity > 0

\* a list without repeats of exactly the rows S
ListsExactly(list, S) == Range(list) = S /\ Len(list) = Cardinality(S)

\* C6 (as claimed): Company.findAll and Job.findAll return exactly the stored
\* rows that satisfy every supplied filter, ordered by company name (company
\* name, then title), and all stored rows when no filter is supplied.
C6_FindAllReturnsMatches ==
  /\ last.op = "Company.findAll" =>
       /\ last.result.ok
       /\ ListsExactly(last.result.value,
                       {Project(r, CompanyAliases) :
                          r \in {r \in last.before.companies : CompanyMatches(r, last.args)}})
       /\ \A i, j \in 1..Len(last.result.value) :
            i < j => StrLeq(last.result.value[i].name, last.result.value[j].name)
  /\ last.op = "Job.findAll" =>
       /\ last.result.ok
       /\ ListsExactly(last.result.value,
                       {JobJoinCompany(last.before, r) :
                          r \in {r \in last.before.jobs : JobMatches(r, last.args)}})
       /\ \A i, j \in 1..Len(last.result.value) :
            i < j =>
              LET a == last.result.value[i]
                  b == last.result.value[j]
              IN  IF a.companyName # b.companyName
                  THEN StrLeq(a.companyName, b.companyName)
                  ELSE StrLeq(a.title, b.title)

ApplyTarget == [username |-> last.args.username, job_id |-> last.args.jobId]
ApplyMissing ==
  \/ \A j \in last.before.jobs : j.id # last.args.jobId
  \/ \A u \in last.before.users : u.username # last.args.username
OnlyApplicationsChanged ==
  /\ companies = last.before.companies /\ jobs = last.before.jobs
  /\ users = last.before.users /\ jobSeq = last.before.jobSeq

\* C7 (as claimed): applyToJob fails with NotFoundError, adding no record,
\* when the job id or the username does not exist, and in every other case
\* adds exactly one application record (username, jobId).
C7_ApplyAddsOneRecord ==
  last.op = "User.applyToJob" =>
    IF ApplyMissing
    THEN Failed("NotFoundError") /\ Unchanged
    ELSE /\ applications = last.before.applications \cup {ApplyTarget}
         /\ Cardinality(applications) = Cardinality(last.before.applications) + 1

\* C7 (amended): applyToJob fails with NotFoundError, adding no record, when
\* the job id or the username does not exist; when both exist and no record
\* (username, jobId) is stored it adds exactly that one record; when the
\* record is already stored the store rejects the insert and nothing is added.
C7_ApplyAddsOneNewRecord ==
  last.op = "User.applyToJob" =>
    IF ApplyMissing
    THEN Failed("NotFoundError") /\ Unchanged
    ELSE IF ApplyTarget \notin last.before.applications
    THEN /\ last.result.ok
         /\ applications = last.before.applications \cup {ApplyTarget}
         /\ Cardinality(applications) = Cardinality(last.before.applications) + 1
         /\ OnlyApplicationsChanged
    ELSE Failed("DatabaseError") /\ Unchanged

C7_Witness ==
  /\ last.op = "User.applyToJob"
  /\ last.result.ok
  /\ last.before.applications # {}
  /\ Cardinality(applications) = 2

\* C8: authenticate succeeds only for a stored username whose stored hash the
\* password matches; every other call fails with one and the same
\* UnauthorizedError, whether or not the username is stored.
C8_AuthenticateOnlyOnMatch ==
  last.op = "User.authenticate" =>
    /\ Unchanged
    /\ last.result.ok =>
         \E u \in last.before.users :
           /\ u.username = last.args.username
           /\ u.password.alg = "bcrypt"
           /\ u.password.of = last.args.password
           /\ last.result.value.username = u.username
    /\ ~last.result.ok =>
         last.result.error =
           [name |-> "UnauthorizedError", message |-> <<"Invalid username/password">>]

\* a stored username with a wrong password is refused
C8_Witness ==
  /\ last.op = "User.authenticate"
  /\ \E u \in last.before.users :
       u.username = last.args.username /\ u.password.of # last.args.password
  /\ Failed("UnauthorizedError")

\* the records a User operation returned
ReturnedUsers ==
  CASE last.op \in {"User.authenticate", "User.register", "User.get", "User.update"} ->
         {last.result.value}
    [] last.op = "User.findAll" -> Range(last.result.value)
    [] OTHER -> {}

\* C10 (as claimed): no User operation returns a record with a password
\* field, and User.update with a supplied password stores a hash of it, not
\* the supplied value.
C10_PasswordHashedNeverReturned ==
  (last.op # "none" /\ last.result.ok) =>
    /\ \A u \in ReturnedUsers : "password" \notin DOMAIN u
    /\ (last.op = "User.update"
        /\ \E i \in 1..Len(last.args.data.keys) : last.args.data.keys[i] = "password")
       => \A u \in users :
            u.username = last.args.key =>
              /\ BcryptCompare(last.args.data.vals.password.of, u.password)
              /\ u.password # last.args.data.vals.password

\* the table an update writes, its key column, and the column each field of
\* the returned record names
UpdatedRows(D) ==
  CASE last.op = "Company.update" -> D.companies
    [] last.op = "Job.update" -> D.jobs
    [] last.op = "User.update" -> D.users
UpdatedKey ==
  CASE last.op = "Company.update" -> "handle"
    [] last.op = "Job.update" -> "id"
    [] last.op = "User.update" -> "username"
FieldColumns ==
  CASE last.op = "Company.update" -> CompanyAliases
    [] last.op = "Job.update" -> JobAliases
    [] last.op = "User.update" -> UserAliasesWithPassword
\* the columns of the fields the data mapping of the last update supplies
SuppliedColumns ==
  {FieldColumns[k] : k \in Range(last.args.data.keys) \cap DOMAIN FieldColumns}

\* C11: a successful Company.update, Job.update or User.update on a stored
\* row leaves every column of that row whose field the data mapping does not
\* supply as it was, leaves every other row of the table as it was, adds and
\* removes no row, and leaves every other table as it was.
C11_UpdateChangesOnlySupplied ==
  (last.op \in UpdateOps /\ last.result.ok) =>
    /\ ~NoSuchKey
    /\ last.op # "Company.update" => companies = last.before.companies
    /\ last.op # "Job.update" => jobs = last.before.jobs
    /\ last.op # "User.update" => users = last.before.users
    /\ applications = last.before.applications
    /\ jobSeq = last.before.jobSeq
    /\ Cardinality(UpdatedRows(Db)) = Cardinality(UpdatedRows(last.before))
    /\ \A r \in UpdatedRows(last.before) :
         IF r[UpdatedKey] # last.args.key THEN r \in UpdatedRows(Db)
         ELSE \E t \in UpdatedRows(Db) :
                /\ t[UpdatedKey] = last.args.key
                /\ \A c \in (DOMAIN r) \ SuppliedColumns : t[c] = r[c]

\* Company.update of numEmployees and logoUrl changed one of two stored
\* companies that has jobs
C11_Witness ==
  /\ last.op = "Company.update" /\ last.result.ok
  /\ Len(last.args.data.keys) = 2
  /\ Cardinality(companies) = 2
  /\ companies # last.before.companies
  /\ \E j \in jobs : j.company_handle = last.args.key

C13_BoundsInclusive ==
  (last.op = "Company.findAll" /\ last.result.ok) =>
    \A r \in last.before.companies :
      (/\ CompanyMatches(r, last.args)
       /\ \/ TruthyNum(last.args.minEmployees) /\ r.num_employees = last.args.minEmployees.v
          \/ TruthyNum(last.args.maxEmployees) /\ r.num_employees = last.args.maxEmployees.v)
      => \E i \in 1..Len(last.result.value) : last.result.value[i].handle = r.handle

-----------------------------------------------------------------------------
(* Claims about concurrent requests (checked under ConcSpec) *)

\* C9: whatever creates, updates and removes have run, and however their
\* queries interleaved, no two stored companies share a handle, no two stored
\* users share a username and no two stored jobs share an id.
C9_KeysUnique ==
  /\ \A a, b \in companies : a.handle = b.handle => a = b
  /\ \A a, b \in users : a.username = b.username => a = b
  /\ \A a, b \in jobs : a.id = b.id => a = b

\* two Company.create calls for one handle both passed the duplicate check;
\* one stored its row and the store refused the other
C9_Witness ==
  /\ \E p \in Procs :
       /\ procs[p].op = "Company.create" /\ procs[p].pc = "idle"
       /\ ~procs[p].result.ok /\ procs[p].result.error.name = "DatabaseError"
  /\ \E q \in Procs :
       /\ procs[q].op = "Company.create" /\ procs[q].pc = "idle"
       /\ procs[q].result.ok
  /\ Cardinality(companies) = 1

\* C14: in every interleaving of applyToJob with removals, updates and other
\* applyToJob calls, every step that adds an application record adds it while
\* a stored job has its job id and a stored user has its username: a removal
\* between the existence checks of applyToJob and its insert makes the insert
\* fail.
C14_InsertOnlyWhileReferentsExist ==
  [][\A a \in applications' \ applications :
       /\ \E j \in jobs' : j.id = a.job_id
       /\ \E u \in users' : u.username = a.username]_vars

\* an applyToJob call passed both existence checks, Job.remove then removed
\* its job, and the insert was refused
C14_Witness ==
  \E p, q \in Procs :
    /\ procs[p].op = "User.applyToJob" /\ procs[p].pc = "idle"
    /\ ~procs[p].result.ok /\ procs[p].result.error.name = "DatabaseError"
    /\ procs[q].op = "Job.remove" /\ procs[q].pc = "idle" /\ procs[q].result.ok
    /\ \A j \in jobs : j.id # procs[p].args.jobId
    /\ \E u \in users : u.username = procs[p].args.username
    /\ applications = {}

====
